---- MODULE Spec2Model ----
(***************************************************************************)
(* The window / GL-context bootstrap of src/main.rs as a state machine.    *)
(*                                                                         *)
(* One action per callback of `impl ApplicationHandler for App`            *)
(* (resumed, and one per arm of window_event), plus the return of          *)
(* run_app.  Every handler runs to completion on the single event thread,  *)
(* so each is one atomic step.  A failed unwrap() is a panic: the process  *)
(* unwinds, `app` is dropped, and no further callback runs.                *)
(*                                                                         *)
(* The platform (winit, glutin, the GL driver) is the environment: what    *)
(* its calls return is drawn from small sets.                              *)
(***************************************************************************)
EXTENDS Integers, Sequences, FiniteSets, TLC

VARIABLES
    platform,         \* "unix" | "windows": which cfg branch was compiled
    renderer,         \* App.renderer : Option<Renderer>
    gl_surface,       \* App.gl_surface : Option<Surface<WindowSurface>>
    gl_context,       \* App.gl_context : Option<PossiblyCurrentContext>
    window,           \* App.window : Option<Window>
    gl,               \* driver state: current context/surface, viewport, live contexts and objects
    redrawRequested,  \* a RedrawRequested is pending for the app's window
    exiting,          \* event_loop.exit() has been called
    terminated,       \* run_app has returned and `app` has been dropped
    panicAt,          \* "none", or the call whose unwrap() panicked
    frame,            \* which buffer of the surface is the front buffer (swap parity)
    resumes,          \* number of resumed() calls so far
    lastEvent,        \* the callback handled last, with its inputs
    lastResize,       \* the size of the last Resized arm taken for the app's window
    drawn,            \* what the draw of the last handler observed, if it drew
    steps,            \* the platform / GL calls of the last handler, in order
    released,         \* how many times the renderer's GL objects were deleted by Drop
    orphaned,         \* contexts destroyed while the renderer's objects still lived in them
    found,            \* configs.reduce: the list find_configs returned
    configs,          \* configs.reduce: the part of the iterator not yet consumed
    accum             \* configs.reduce: the accumulator, Option<Config>

appFields == <<renderer, gl_surface, gl_context, window>>
reduceVars == <<found, configs, accum>>
vars == <<platform, renderer, gl_surface, gl_context, window, gl, redrawRequested,
          exiting, terminated, panicAt, frame, resumes, lastEvent, lastResize,
          drawn, steps, released, orphaned, found, configs, accum>>

---------------------------------------------------------------------------
\* Bounds of the model.

MaxDim == 2             \* window sizes 0..MaxDim, plus one size with bit 31 set
MaxResumes == 2         \* resumed() is delivered at most this many times
MaxConfigs == 3         \* length of the config list folded by reduce

\* i32::MAX; `as i32` (main.rs:155) maps u32 values above it to negatives.
I32Max == 2147483647

---------------------------------------------------------------------------
\* Values.

None == [tag |-> "None"]

\* A u32 is kept as its top bit and its low 31 bits, so that every u32 is
\* representable: value = hi * 2^31 + lo.
U32(hi, lo) == [hi |-> hi, lo |-> lo]
Dim == {U32(0, n) : n \in 0..MaxDim} \cup {U32(1, 0)}
IsZero(u) == u.hi = 0 /\ u.lo = 0

\* `x as i32` for x : u32 (two's complement reinterpretation).
AsI32(u) == IF u.hi = 1 THEN (u.lo - I32Max) - 1 ELSE u.lo

\* A GL integer equal in value to a u32.
SameValue(i, u) == u.hi = 0 /\ u.lo = i

\* glutin Config: supports_transparency() : Option<bool>, num_samples() : u8.
Transparency == {"None", "Some(true)", "Some(false)"}
Samples == {0, 4}
Config == [transparency : Transparency, num_samples : Samples]

\* supports_transparency().unwrap_or(false)
SupportsTransparency(config) == config.transparency = "Some(true)"

RECURSIVE ListsUpTo(_, _)
ListsUpTo(S, n) ==
    IF n = 0 THEN {<<>>}
    ELSE LET shorter == ListsUpTo(S, n - 1)
         IN shorter \cup {Append(l, x) : l \in {s \in shorter : Len(s) = n - 1}, x \in S}

Min(S) == CHOOSE x \in S : \A y \in S : x <= y

\* What find_configs returns to resumed().  After the reduce, resumed() only
\* reads whether a config was selected, not which: an empty list and a list
\* of one config give both outcomes.  ReduceSpec folds the longer lists.
DisplayConfigLists ==
    ListsUpTo({[transparency |-> "Some(true)", num_samples |-> 0]}, 1)
ConfigLists == ListsUpTo(Config, MaxConfigs)

---------------------------------------------------------------------------
\* configs.reduce(|accum, config| ...) of resumed().

ReduceClosure(acc, config) ==
    LET transparency_check == SupportsTransparency(config) /\ ~SupportsTransparency(acc)
    IN IF transparency_check \/ config.num_samples > acc.num_samples
       THEN config ELSE acc

\* Iterator::reduce: None on an empty iterator, else the left fold.
RECURSIVE Fold(_, _)
Fold(acc, l) == IF l = <<>> THEN acc ELSE Fold(ReduceClosure(acc, Head(l)), Tail(l))
Reduce(l) == IF l = <<>> THEN None ELSE Fold(Head(l), Tail(l))

---------------------------------------------------------------------------
\* The GL driver, as far as the program can observe it.
\*   current  : the context / surface made current on the event thread
\*   viewport : the viewport of the current context
\*   contexts : ids of the contexts not yet destroyed
\*   objects  : ids of the contexts holding the renderer's program, vbo and vao
\*   bound    : id of the context whose program, vao and vbo are the ones
\*              bound in the current context (0: nothing bound)
\* The clear colour and the back buffer, which a draw overwrites whatever
\* they held, are not part of this state.

NoGl == [current |-> None, viewport |-> None, contexts |-> {}, objects |-> {},
         bound |-> 0]

CurrentCtx(g) == IF g.current = None THEN 0 ELSE g.current.ctx
CurrentSurface(g) == IF g.current = None THEN 0 ELSE g.current.surface

\* The viewport of a context attached to a surface for the first time is
\* the surface's size (a GL integer, so at most i32::MAX).
InitialViewport(surface) ==
    [width  |-> IF surface.width.hi = 1 THEN I32Max ELSE surface.width.lo,
     height |-> IF surface.height.hi = 1 THEN I32Max ELSE surface.height.lo]

\* make_current that leaves the previous context current.
MakeCurrentKeepsOld(g, ctx, surface) ==
    [g EXCEPT !.contexts = @ \cup {ctx.id}]

\* possibly_current_context.make_current(&gl_surface)
MakeCurrent(g, ctx, surface) ==
    [g EXCEPT !.current = [ctx |-> ctx.id, surface |-> surface.id],
              !.viewport = InitialViewport(surface),
              !.contexts = @ \cup {ctx.id},
              !.bound = 0]

\* Drop of a PossiblyCurrentContext: the context and every object in it go.
DestroyContext(g, ctx) ==
    [g EXCEPT !.contexts = @ \ {ctx.id},
              !.objects = @ \ {ctx.id},
              !.current = IF CurrentCtx(g) = ctx.id THEN None ELSE @,
              !.viewport = IF CurrentCtx(g) = ctx.id THEN None ELSE @,
              !.bound = IF CurrentCtx(g) = ctx.id \/ @ = ctx.id THEN 0 ELSE @]

\* create_shader: the shader name is returned whatever CompileShader did.
create_shader(kind, compiles) == [kind |-> kind, compiled |-> compiles]

\* Renderer::new: program, vao and vbo are created in the current context;
\* neither COMPILE_STATUS nor LINK_STATUS is read.
RendererNew(g, vsOk, fsOk, linkOk) ==
    LET vertex_shader == create_shader("VERTEX_SHADER", vsOk)
        fragment_shader == create_shader("FRAGMENT_SHADER", fsOk)
        linked == vertex_shader.compiled /\ fragment_shader.compiled /\ linkOk
    IN [ctx |-> CurrentCtx(g), linked |-> linked]

\* The driver after Renderer::new.
GlAfterNew(g) == [g EXCEPT !.objects = @ \cup ({CurrentCtx(g)} \ {0}),
                          !.bound = CurrentCtx(g)]

\* Whether the names held by the renderer denote objects of the current context.
Usable(r, g) == r.ctx = CurrentCtx(g) /\ r.ctx \in g.objects

\* The clear colour of Renderer::draw, in tenths.
ClearColor == <<1, 1, 1, 9>>

\* Renderer::draw -> draw_with_clear_color(0.1, 0.1, 0.1, 0.9): what one
\* draw submits and what it sees.
RendererDraw(r, g) ==
    [viewport |-> g.viewport,
     current  |-> CurrentCtx(g),
     objects  |-> r.ctx,
     live     |-> r.ctx \in g.objects,
     usable   |-> Usable(r, g),
     linked   |-> r.linked,
     color    |-> ClearColor,
     commands |-> <<"UseProgram", "BindVertexArray", "BindBuffer",
                    "ClearColor", "Clear", "DrawArrays(TRIANGLES,0,3)">>]

\* A draw that deletes the geometry buffer with the program and vertex array
\* once the triangle is submitted.
GlAfterDrawFreesObjects(r, g) == [g EXCEPT !.objects = @ \ {r.ctx}, !.bound = 0]

\* The driver after draw_with_clear_color: UseProgram, BindVertexArray and
\* BindBuffer rebind the renderer's names when they denote objects of the
\* current context (an unknown name is an error and binds nothing); no
\* object, viewport or context is written.
GlAfterDraw(r, g) == IF Usable(r, g) THEN [g EXCEPT !.bound = r.ctx] ELSE g

\* Renderer::resize: glViewport(0, 0, width, height); a negative width or
\* height is GL_INVALID_VALUE and leaves the viewport as it was.
RendererResize(g, width, height) ==
    IF width < 0 \/ height < 0 \/ g.current = None THEN g
    ELSE [g EXCEPT !.viewport = [width |-> width, height |-> height]]

\* impl Drop for Renderer: DeleteProgram / DeleteBuffers / DeleteVertexArrays
\* act on the names in the context that is current at the drop.
RendererDrop(r, g) ==
    IF Usable(r, g) THEN [g EXCEPT !.objects = @ \ {r.ctx}] ELSE g

\* Drop of App (fields in declaration order: renderer, gl_surface,
\* gl_context, window), at the end of main or while a panic unwinds.
DropApp(r, c, g) ==
    LET g1 == IF r = None THEN g ELSE RendererDrop(r, g)
    IN IF c = None THEN g1 ELSE DestroyContext(g1, c)
DropReleases(r, g) == IF r # None /\ Usable(r, g) THEN 1 ELSE 0
DropOrphans(r, c, g) ==
    LET g1 == IF r = None THEN g ELSE RendererDrop(r, g)
    IN IF c # None /\ c.id \in g1.objects THEN {c.id} ELSE {}

\* One platform / GL call of a handler: what was current and what the app held.
Call(op, g, c, s) ==
    [op |-> op, current |-> CurrentCtx(g), surface |-> CurrentSurface(g),
     heldCtx |-> IF c = None THEN 0 ELSE c.id,
     heldSurface |-> IF s = None THEN 0 ELSE s.id]

\* A call together with the width and height it was handed.
CallWith(call, size) ==
    [op |-> call.op, current |-> call.current, surface |-> call.surface,
     heldCtx |-> call.heldCtx, heldSurface |-> call.heldSurface, args |-> size]

---------------------------------------------------------------------------
\* State predicates.

Running == panicAt = "none" /\ ~terminated
AllAbsent == renderer = None /\ gl_surface = None /\ gl_context = None /\ window = None
AllPresent == renderer # None /\ gl_surface # None /\ gl_context # None /\ window # None
Ready == Running /\ AllPresent

NoEvent == [type |-> "None", width |-> U32(0, 0), height |-> U32(0, 0),
            fail |-> "none", configs |-> 0]
Event(type, w, h) == [NoEvent EXCEPT !.type = type, !.width = w, !.height = h]

\* App::new(), before run_app delivers anything.
InitApp ==
    /\ platform \in {"unix", "windows"}
    /\ renderer = None
    /\ gl_surface = None
    /\ gl_context = None
    /\ window = None
    /\ gl = NoGl
    /\ redrawRequested = FALSE
    /\ exiting = FALSE
    /\ terminated = FALSE
    /\ panicAt = "none"
    /\ frame = 0
    /\ resumes = 0
    /\ lastEvent = NoEvent
    /\ lastResize = None
    /\ drawn = None
    /\ steps = <<>>
    /\ released = 0
    /\ orphaned = {}

Init ==
    /\ InitApp
    /\ found = <<>>
    /\ configs = <<>>
    /\ accum = None

\* The state a handler leaves: the four fields and the driver; when the
\* handler panicked (p is the failed call) the unwinding drops the App.
Leave(p, r, s, c, w, g, orph) ==
    \E g0 \in {g} :
        /\ renderer' = r
        /\ gl_surface' = s
        /\ gl_context' = c
        /\ window' = w
        /\ panicAt' = p
        /\ gl' = IF p = "none" THEN g0 ELSE DropApp(r, c, g0)
        /\ released' = released + (IF p = "none" THEN 0 ELSE DropReleases(r, g0))
        /\ orphaned' = orph \cup (IF p = "none" THEN {} ELSE DropOrphans(r, c, g0))

---------------------------------------------------------------------------
\* App::resumed

\* The fallible calls of resumed(), in program order.
ResumedSteps ==
    <<"display_handle", "window_unwrap", "display", "find_configs", "reduce",
      "create_window", "window_handle", "nonzero_width", "nonzero_height",
      "create_surface", "create_context", "make_current", "set_swap_interval">>

\* Those whose result the platform decides.
PlatformCalls ==
    {"display_handle", "display", "find_configs", "create_window", "window_handle",
     "create_surface", "create_context", "make_current", "set_swap_interval"}

Rank(step) == CHOOSE i \in DOMAIN ResumedSteps : ResumedSteps[i] = step

\* Whether resumed() panics before it reaches `step`, whatever the later inputs.
Before(fail, step) ==
    \/ platform = "windows" /\ window = None /\ Rank("window_unwrap") < Rank(step)
    \/ fail # "none" /\ Rank(fail) < Rank(step)

\* A resumed() that builds the surface attributes without the NonZeroU32 check.
StepPanicsUncheckedSize(step, fail, cfgs, w, h) ==
    CASE step = "window_unwrap" -> platform = "windows" /\ window = None
      [] step = "reduce" -> Reduce(cfgs) = None
      [] step \in {"nonzero_width", "nonzero_height"} -> FALSE
      [] OTHER -> fail = step

\* Whether `step` panics: `fail` is the platform call that returns Err.
StepPanics(step, fail, cfgs, w, h) ==
    CASE step = "window_unwrap" -> platform = "windows" /\ window = None
      [] step = "reduce" -> Reduce(cfgs) = None
      [] step = "nonzero_width" -> IsZero(w)
      [] step = "nonzero_height" -> IsZero(h)
      [] OTHER -> fail = step

\* The first call of resumed() that panics, or "none".
PanicStep(fail, cfgs, w, h) ==
    LET bad == {i \in DOMAIN ResumedSteps : StepPanics(ResumedSteps[i], fail, cfgs, w, h)}
    IN IF bad = {} THEN "none" ELSE ResumedSteps[Min(bad)]

\* A resumed() that builds the renderer but does not store it.
GetOrInsertSkipped(r, new) == r

\* self.renderer.get_or_insert_with(|| Renderer::new(..)): the field afterwards.
GetOrInsertWith(r, new) == IF r = None THEN new ELSE r

Resumed ==
    /\ Running /\ ~exiting /\ resumes < MaxResumes
    \* inputs that this run of resumed() never reads are fixed
    /\ \E fail \in PlatformCalls \cup {"none"} :
       \E cfgs \in (IF Before(fail, "reduce") THEN {<<>>} ELSE DisplayConfigLists) :
       \E w, h \in (IF Before(fail, "nonzero_width") \/ cfgs = <<>> THEN {U32(0, 0)}
                   ELSE IF Before(fail, "set_swap_interval") THEN {U32(0, 0), U32(0, 1)}
                   ELSE Dim) :
       \E vsOk, fsOk, linkOk \in (IF renderer # None \/ Before(fail, "set_swap_interval")
                                     \/ IsZero(w) \/ IsZero(h)
                                  THEN {TRUE} ELSE BOOLEAN) :
        /\ lastEvent' = [type |-> "Resumed", width |-> w, height |-> h,
                         fail |-> fail, configs |-> Len(cfgs)]
        \* each intermediate value is computed once
        /\ \E p \in {PanicStep(fail, cfgs, w, h)} :
           \E id \in {resumes + 1} :
           \E possibly_current_context \in {[id |-> id]} :
           \E surface \in {[id |-> id, width |-> w, height |-> h]} :
           \* 115: make_current
           \E g1 \in {MakeCurrent(gl, possibly_current_context, surface)} :
           \* 117: self.gl_context = Some(..) drops the context held before
           \E g2 \in {IF gl_context = None THEN g1 ELSE DestroyContext(g1, gl_context)} :
           \E g3 \in {IF renderer = None THEN GlAfterNew(g2) ELSE g2} :
           LET orph == IF gl_context # None /\ gl_context.id \in g1.objects
                       THEN orphaned \cup {gl_context.id} ELSE orphaned
               \* 122: get_or_insert_with
               r == GetOrInsertWith(renderer, RendererNew(g2, vsOk, fsOk, linkOk))
               init == IF renderer = None
                       THEN <<Call("init", g2, possibly_current_context, surface)>> ELSE <<>>
           IN /\ p \in {"none", fail} \/ fail = "none"
              /\ resumes' = id
              /\ IF p # "none" /\ Rank(p) <= Rank("make_current")
                 THEN /\ Leave(p, renderer, gl_surface, gl_context, window, gl, orphaned)
                      /\ steps' = <<>>
                      /\ UNCHANGED <<redrawRequested, lastResize>>
                 ELSE /\ Leave(p, r, surface, possibly_current_context, [id |-> id], g3, orph)
                      /\ steps' = <<Call("make_current", g1, possibly_current_context, surface)>>
                                    \o init
                                    \o <<Call("set_swap_interval", g3, possibly_current_context, surface)>>
                      \* a window just created has nothing drawn in it yet, and
                      \* no Resized has been delivered for it
                      /\ redrawRequested' = TRUE
                      /\ lastResize' = None
    /\ drawn' = None
    /\ UNCHANGED <<platform, exiting, terminated, frame, reduceVars>>

---------------------------------------------------------------------------
\* App::window_event.  winit delivers window events for a window that
\* exists, until run_app returns; after event_loop.exit() the events already
\* queued in the same loop iteration are still dispatched.

Delivering == Running /\ window # None

\* The first field whose as_ref().unwrap() panics, in the order given.
UnwrapPanic(fields) ==
    LET bad == {i \in DOMAIN fields : fields[i][2] = None}
    IN IF bad = {} THEN "none" ELSE fields[Min(bad)][1]

\* WindowEvent::CloseRequested
CloseRequested ==
    /\ Delivering
    /\ exiting' = TRUE
    /\ lastEvent' = Event("CloseRequested", U32(0, 0), U32(0, 0))
    /\ steps' = <<Call("exit", gl, gl_context, gl_surface)>>
    /\ drawn' = None
    /\ UNCHANGED <<platform, appFields, gl, redrawRequested, terminated, panicAt, frame,
                   resumes, lastResize, released, orphaned, reduceVars>>

\* A guard that lets a size through when either dimension is non-zero.
ResizedGuardEither(width, height) == ~IsZero(width) \/ ~IsZero(height)

\* `if size.width != 0 && size.height != 0`
ResizedGuard(width, height) == ~IsZero(width) /\ ~IsZero(height)

\* A surface resize that takes the new height from the surface's old width.
SurfaceResizeStaleHeight(surface, width, height) ==
    [surface EXCEPT !.width = width, !.height = surface.width]

\* gl_surface.resize(gl_context, width, height)
SurfaceResize(surface, width, height) ==
    [surface EXCEPT !.width = width, !.height = height]

\* WindowEvent::Resized(size); a size the guard rejects falls to `_ => ()`.
Resized ==
    /\ Delivering
    /\ \E width \in Dim, height \in Dim :
        /\ lastEvent' = Event("Resized", width, height)
        /\ IF ResizedGuard(width, height)
           THEN LET p0 == UnwrapPanic(<<<<"gl_context", gl_context>>, <<"gl_surface", gl_surface>>>>)
                    p1 == IF p0 # "none" THEN p0
                          ELSE IF IsZero(width) THEN "nonzero_width"
                          ELSE IF IsZero(height) THEN "nonzero_height"
                          ELSE "none"
                    p2 == IF p1 # "none" THEN p1
                          ELSE UnwrapPanic(<<<<"renderer", renderer>>>>)
                    s == IF p1 = "none" THEN SurfaceResize(gl_surface, width, height)
                         ELSE gl_surface
                    g == IF p2 = "none" THEN RendererResize(gl, AsI32(width), AsI32(height))
                         ELSE gl
                IN /\ Leave(p2, renderer, s, gl_context, window, g, orphaned)
                   /\ lastResize' = IF p2 = "none" THEN [width |-> width, height |-> height]
                                    ELSE lastResize
                   /\ steps' = (IF p1 = "none"
                                THEN <<CallWith(Call("surface_resize", gl, gl_context, gl_surface),
                                                <<width, height>>)>>
                                ELSE <<>>)
                               \o (IF p2 = "none"
                                   THEN <<CallWith(Call("viewport", gl, gl_context, gl_surface),
                                                   <<AsI32(width), AsI32(height)>>)>>
                                   ELSE <<>>)
           ELSE /\ steps' = <<>>
                /\ UNCHANGED <<appFields, gl, panicAt, lastResize, released, orphaned>>
    /\ drawn' = None
    /\ UNCHANGED <<platform, redrawRequested, exiting, terminated, frame, resumes, reduceVars>>

\* A redraw handler that does not ask for the next redraw.
RequestRedrawDropped(pending) == pending

\* window.request_redraw()
RequestRedraw(pending) == TRUE

\* A present whose failure is ignored.
SwapBuffersIgnored(swapOk) == "none"

\* gl_surface.swap_buffers(gl_context).unwrap(): the call that panics, or "none".
SwapBuffers(swapOk) == IF swapOk THEN "none" ELSE "swap_buffers"

\* A redraw handler that presents before it asks for the next redraw.
RedrawCallsPresentFirst == <<"draw", "swap_buffers", "request_redraw">>

\* The body of the RedrawRequested arm, in program order.
RedrawCalls == <<"draw", "request_redraw", "swap_buffers">>

\* The calls the arm reaches when its present fails: the unwrap panics there.
RedrawCallsToPanic ==
    SubSeq(RedrawCalls, 1, CHOOSE i \in DOMAIN RedrawCalls : RedrawCalls[i] = "swap_buffers")

Has(l, op) == \E i \in DOMAIN l : l[i] = op

\* The names of the calls in a log.
Ops(l) == [i \in DOMAIN l |-> l[i].op]

\* WindowEvent::RedrawRequested
RedrawRequested ==
    /\ Delivering
    /\ \E swapOk \in BOOLEAN :
        /\ lastEvent' = [Event("RedrawRequested", U32(0, 0), U32(0, 0))
                            EXCEPT !.fail = IF swapOk THEN "none" ELSE "swap_buffers"]
        /\ \E p0 \in {UnwrapPanic(<<<<"gl_surface", gl_surface>>, <<"window", window>>,
                                     <<"gl_context", gl_context>>, <<"renderer", renderer>>>>)} :
           \E p \in {IF p0 # "none" THEN p0 ELSE SwapBuffers(swapOk)} :
           LET calls == IF p = "swap_buffers" THEN RedrawCallsToPanic ELSE RedrawCalls
           IN IF p0 # "none"
              THEN /\ drawn' = None
                   /\ UNCHANGED <<redrawRequested, frame>>
                   /\ steps' = <<>>
                   /\ Leave(p, renderer, gl_surface, gl_context, window, gl, orphaned)
              ELSE /\ drawn' = IF Has(calls, "draw")
                               THEN [draw |-> RendererDraw(renderer, gl),
                                     surface |-> [width |-> gl_surface.width,
                                                  height |-> gl_surface.height],
                                     resized |-> lastResize,
                                     exiting |-> exiting]
                               ELSE None
                   \* the delivery consumes the pending request; the handler asks again
                   /\ redrawRequested' = IF Has(calls, "request_redraw")
                                         THEN RequestRedraw(FALSE) ELSE FALSE
                   /\ frame' = IF swapOk THEN 1 - frame ELSE frame
                   /\ steps' = [i \in DOMAIN calls |->
                                   Call(calls[i], gl, gl_context, gl_surface)]
                   /\ Leave(p, renderer, gl_surface, gl_context, window,
                            IF Has(calls, "draw") THEN GlAfterDraw(renderer, gl) ELSE gl,
                            orphaned)
    /\ UNCHANGED <<platform, exiting, terminated, resumes, lastResize, reduceVars>>

\* Any other WindowEvent: `_ => ()`
OtherEvent ==
    /\ Delivering
    /\ lastEvent' = Event("Other", U32(0, 0), U32(0, 0))
    /\ steps' = <<>>
    /\ drawn' = None
    /\ UNCHANGED <<platform, appFields, gl, redrawRequested, exiting, terminated, panicAt,
                   frame, resumes, lastResize, released, orphaned, reduceVars>>

\* run_app returns after exit(); main ends and `app` is dropped.
LoopExit ==
    /\ Running /\ exiting
    /\ terminated' = TRUE
    /\ gl' = DropApp(renderer, gl_context, gl)
    /\ released' = released + DropReleases(renderer, gl)
    /\ orphaned' = orphaned \cup DropOrphans(renderer, gl_context, gl)
    /\ UNCHANGED <<platform, appFields, redrawRequested, exiting, panicAt, frame, resumes,
                   lastEvent, lastResize, drawn, steps, reduceVars>>

Next ==
    \/ Resumed
    \/ CloseRequested
    \/ Resized
    \/ RedrawRequested
    \/ OtherEvent
    \/ LoopExit

Spec == Init /\ [][Next]_vars

\* winit delivers a redraw that has been requested for a live window.
LiveSpec == Spec /\ WF_vars(redrawRequested /\ RedrawRequested)

---------------------------------------------------------------------------
\* configs.reduce on its own: the iterator is consumed one config at a time.

ReduceInit ==
    /\ InitApp
    /\ found \in ConfigLists
    /\ configs = found
    /\ accum = None

\* One step of Iterator::reduce: the first item seeds the accumulator, every
\* later item goes through the closure.
ReduceStep ==
    /\ configs # <<>>
    /\ accum' = IF accum = None THEN Head(configs)
                ELSE ReduceClosure(accum, Head(configs))
    /\ configs' = Tail(configs)
    /\ UNCHANGED <<platform, appFields, gl, redrawRequested, exiting, terminated, panicAt,
                   frame, resumes, lastEvent, lastResize, drawn, steps, released, orphaned,
                   found>>

ReduceSpec == ReduceInit /\ [][ReduceStep]_vars

---------------------------------------------------------------------------
\* Properties.

WindowEvents == {"CloseRequested", "Resized", "RedrawRequested", "Other"}
ZeroSized(e) == e.type = "Resized" /\ (IsZero(e.width) \/ IsZero(e.height))
Elements(l) == {l[i] : i \in DOMAIN l}

\* C1: at each draw that follows a resize with w > 0 and h > 0, the active
\* viewport is (0, 0, w, h) for the most recent such resize, and the
\* surface's backing size is that same (w, h).
C1_ResizeThenDraw ==
    (drawn # None /\ drawn.resized # None) =>
        /\ drawn.draw.viewport # None
        /\ SameValue(drawn.draw.viewport.width, drawn.resized.width)
        /\ SameValue(drawn.draw.viewport.height, drawn.resized.height)
        /\ drawn.surface = drawn.resized

\* C2: a RedrawRequested handled after CloseRequested neither draws a frame
\* nor calls request_redraw.
C2_NoRedrawAfterClose ==
    (lastEvent.type = "RedrawRequested" /\ exiting) =>
        /\ drawn = None
        /\ \A i \in DOMAIN steps : steps[i].op \notin {"draw", "request_redraw"}

\* C3: for every non-empty list of configs, in every order, the selected
\* config supports transparency if any config of the list does; among the
\* configs with the same transparency support it has the highest sample
\* count; and {no-transparency/0, no-transparency/4, transparency/0} selects
\* transparency/0.
C3_ConfigSelection ==
    (configs = <<>> /\ found # <<>>) =>
        /\ accum # None
        /\ (\E c \in Elements(found) : SupportsTransparency(c)) => SupportsTransparency(accum)
        /\ \A c \in Elements(found) :
              SupportsTransparency(c) = SupportsTransparency(accum)
                  => c.num_samples <= accum.num_samples
        /\ Elements(found) = {[transparency |-> "Some(false)", num_samples |-> 0],
                              [transparency |-> "Some(false)", num_samples |-> 4],
                              [transparency |-> "Some(true)", num_samples |-> 0]}
              => accum = [transparency |-> "Some(true)", num_samples |-> 0]

\* C4: a Resized event whose width or height is 0 reconfigures no surface
\* and changes no viewport: the surface size, the viewport and every other
\* piece of app state are as before the event, and the app stays Ready.
C4_ZeroSizeFiltering ==
    [][(Resized /\ ZeroSized(lastEvent')) =>
          /\ UNCHANGED <<appFields, gl, redrawRequested, exiting, terminated, panicAt,
                         frame, resumes, lastResize, released, orphaned>>
          /\ steps' = <<>>
          /\ Ready => Ready']_vars

\* A zero-sized resize has been handled after a resize that was applied.
C4_Witness ==
    /\ Ready
    /\ ZeroSized(lastEvent)
    /\ lastResize # None
    /\ gl_surface.width = lastResize.width /\ gl_surface.height = lastResize.height

\* C5: over every sequence of events, the renderer's program, buffer and
\* vertex array are released before the context they were created in is
\* destroyed, they are released exactly once, and no draw is issued once
\* they are gone.
C5_ShutdownOrdering ==
    /\ orphaned = {}
    /\ released <= 1
    /\ (renderer # None /\ ~Running) => released = 1
    /\ drawn # None => drawn.draw.live

\* C6: every present, draw, viewport update and the device initialization
\* happen while the context held by the app is current with the surface
\* held by the app; the context passed to present is the current one.
C6_CurrentContext ==
    \A i \in DOMAIN steps :
        steps[i].op \in {"swap_buffers", "draw", "viewport", "init"} =>
            /\ steps[i].current # 0
            /\ steps[i].current = steps[i].heldCtx
            /\ steps[i].surface = steps[i].heldSurface

\* A frame has been drawn and presented in the context of a second resumed().
C6_Witness ==
    /\ Ready
    /\ resumes = 2
    /\ Len(steps) = 3 /\ steps[3].op = "swap_buffers" /\ steps[3].current = 2

\* C7: once Ready, every redraw handled without a failed present leaves a
\* request for the next redraw pending; so, winit delivering every requested
\* redraw, frames are presented again and again until close is requested or
\* the process panics.
C7_SelfScheduling ==
    /\ [][(RedrawRequested /\ panicAt' = "none") => redrawRequested']_vars
    /\ \A f \in {0, 1} :
          (Ready /\ redrawRequested /\ frame = f)
              ~> (frame # f \/ exiting \/ panicAt # "none")

\* A frame has been presented and the next redraw is pending.
C7_Witness ==
    /\ Ready /\ ~exiting
    /\ lastEvent.type = "RedrawRequested"
    /\ frame = 1
    /\ redrawRequested

\* C8: when a shader fails to compile or the program fails to link, the
\* process cannot continue: the app never becomes Ready and no draw is
\* issued with the unlinked program.
C8_ShaderFailureFatal ==
    /\ (renderer # None /\ ~renderer.linked) => (panicAt # "none" /\ ~Ready)
    /\ drawn # None => drawn.draw.linked

\* C9: when the platform rejects set_swap_interval, the process does not
\* abort and the app becomes Ready.
C9_SwapIntervalNotFatal ==
    (lastEvent.type = "Resumed" /\ lastEvent.fail = "set_swap_interval") =>
        (panicAt = "none" /\ Ready)

\* C10: when no config exists, the window's width or height is zero, or
\* context / surface creation fails, the process panics inside resumed();
\* the panic leaves the fields as they were (all absent or all present), no
\* handler runs after it, and every window event is handled with the four
\* fields present and a surface of non-zero size.
C10_CreationFailureFatal ==
    /\ (/\ lastEvent.type = "Resumed"
        /\ \/ lastEvent.configs = 0
           \/ IsZero(lastEvent.width) \/ IsZero(lastEvent.height)
           \/ lastEvent.fail \in {"create_surface", "create_context"})
          => /\ panicAt \in Elements(ResumedSteps) \ {"set_swap_interval"}
             /\ AllAbsent \/ AllPresent
             /\ resumes = 1 => AllAbsent
    /\ panicAt \in Elements(ResumedSteps) => lastEvent.type = "Resumed"
    /\ lastEvent.type \in WindowEvents =>
          /\ AllPresent
          /\ ~IsZero(gl_surface.width) /\ ~IsZero(gl_surface.height)

\* The first resumed() panicked creating the context, with nothing stored.
C10_Witness ==
    /\ lastEvent.type = "Resumed" /\ lastEvent.fail = "create_context"
    /\ panicAt = "create_context"
    /\ AllAbsent

\* C11: a failed present is fatal.  After a redraw handler whose buffer swap
\* failed the process has panicked at that call with no frame presented, and
\* from a panicked process no handler runs again: nothing changes any more,
\* so that redraw stays the last event handled.
C11_PresentFailsFatally ==
    /\ [](lastEvent.type = "RedrawRequested" /\ lastEvent.fail = "swap_buffers"
            => panicAt = "swap_buffers" /\ ~Running)
    /\ [](panicAt = "swap_buffers"
            => /\ lastEvent.type = "RedrawRequested"
               /\ lastEvent.fail = "swap_buffers"
               /\ Ops(steps)[Len(steps)] = "swap_buffers")
    /\ [][panicAt = "swap_buffers"
            => UNCHANGED <<appFields, gl, frame, drawn, steps, lastEvent, lastResize>>]_vars

C11_Witness ==
    /\ panicAt = "swap_buffers"
    /\ lastEvent.type = "RedrawRequested"
    /\ drawn # None
    /\ resumes = 1

\* C12: an identical resize is idempotent.  When the event handled last was
\* Resized(w, h) with w > 0 and h > 0, handling Resized(w, h) again leaves the
\* surface size, the viewport and all other state of the app, the driver and
\* the loop as the first handling left them.
C12_IdempotentResize ==
    [][(/\ Resized
        /\ lastEvent.type = "Resized"
        /\ ResizedGuard(lastEvent.width, lastEvent.height)
        /\ lastEvent' = lastEvent)
          => UNCHANGED <<appFields, gl, redrawRequested, exiting, terminated, panicAt,
                         frame, resumes, lastResize, released, orphaned>>]_vars

C12_Witness ==
    /\ Ready
    /\ lastEvent.type = "Resized"
    /\ ResizedGuard(lastEvent.width, lastEvent.height)
    /\ ENABLED (Resized /\ lastEvent' = lastEvent)
    /\ gl_surface.width = lastEvent.width /\ gl_surface.height = lastEvent.height
    /\ gl_surface.width = U32(0, 2)
    /\ gl.viewport = [width |-> 2, height |-> 1]

\* C13: at every draw the program, vertex array and buffer the renderer uses
\* were created in the context that is current at that draw, and still exist;
\* also after resumed() has run more than once.
C13_HandlesOfCurrentContext ==
    drawn # None =>
        /\ drawn.draw.current # 0
        /\ drawn.draw.objects = drawn.draw.current
        /\ drawn.draw.live

\* C14: redraw step order.  The calls of a handled RedrawRequested are
\* exactly one draw, then one request for the next redraw, then one present,
\* in that order; the request is already issued when the present is
\* attempted, whether or not the present succeeds.
C14_RedrawStepOrder ==
    lastEvent.type = "RedrawRequested" =>
        /\ Ops(steps) = <<"draw", "request_redraw", "swap_buffers">>
        /\ redrawRequested
        /\ drawn # None

C14_Witness ==
    /\ lastEvent.type = "RedrawRequested"
    /\ Len(steps) = 3
    /\ steps[3].op = "swap_buffers"
    /\ Ready
    /\ frame = 1

\* C15: whenever a handler has returned, the four fields of the app
\* (renderer, surface, context, window) are all absent or all present; once
\* present they stay present; and so no resize or redraw handler ever panics
\* on unwrapping an absent field: each runs with all four present.
C15_FieldsAllOrNone ==
    /\ [](AllAbsent \/ AllPresent)
    /\ [][AllPresent => AllPresent']_vars
    /\ [](panicAt \notin {"renderer", "gl_surface", "gl_context", "window"})
    /\ [](lastEvent.type \in {"Resized", "RedrawRequested"} => AllPresent)

C15_Witness ==
    /\ Ready
    /\ resumes = 2
    /\ lastEvent.type = "RedrawRequested"
    /\ lastResize # None

\* C16: for every handled resize with both dimensions non-zero, the width and
\* height handed to the viewport update are non-negative and numerically
\* equal to the unsigned 32-bit width and height handed to the surface resize.
C16_ViewportArgsEqualSurfaceArgs ==
    (lastEvent.type = "Resized" /\ ResizedGuard(lastEvent.width, lastEvent.height)) =>
        \A i, j \in DOMAIN steps :
            (steps[i].op = "surface_resize" /\ steps[j].op = "viewport") =>
                /\ steps[j].args[1] >= 0 /\ steps[j].args[2] >= 0
                /\ SameValue(steps[j].args[1], steps[i].args[1])
                /\ SameValue(steps[j].args[2], steps[i].args[2])

\* C17: a draw leaves the device state unchanged.  A handled redraw that does
\* not panic leaves the renderer's buffer, program and vertex array, the
\* viewport and the surface size as they were; every draw submits a clear
\* to the draw's clear colour and then one triangle draw of 3 vertices at
\* offset 0; and a draw that directly follows another draw sees the same
\* state and submits the same commands, so it yields the same frame.
C17_DrawLeavesDeviceState ==
    [][/\ (RedrawRequested /\ panicAt' = "none")
            => /\ gl'.objects = gl.objects
               /\ gl'.viewport = gl.viewport
               /\ UNCHANGED <<renderer, gl_surface>>
       /\ (RedrawRequested /\ drawn' # None)
            => /\ drawn'.draw.color = ClearColor
               /\ SubSeq(drawn'.draw.commands, 4, 6)
                    = <<"ClearColor", "Clear", "DrawArrays(TRIANGLES,0,3)">>
       /\ (RedrawRequested /\ drawn # None /\ drawn' # None)
            => /\ drawn'.draw = drawn.draw
               /\ drawn'.surface = drawn.surface]_vars

C17_Witness ==
    /\ Ready
    /\ lastEvent.type = "RedrawRequested"
    /\ frame = 0
    /\ drawn # None
    /\ drawn.draw.usable
    /\ drawn.resized # None
    /\ gl.bound = renderer.ctx

====
